---- MODULE Spec2Model ----
(***************************************************************************)
(* Verification model of the AI-Pirate-Assistant voice-chat backend.       *)
(*                                                                         *)
(*   SpecMem   services/memory.py    MemoryStore (file-backed, cached)     *)
(*   SpecMemDir services/memory.py   two sessions, sessions()/stats() and  *)
(*                                   session files damaged from outside    *)
(*   SpecMemConc services/memory.py  two threads calling the store         *)
(*   SpecTts   services/tts.py       text_to_speech and its fallbacks      *)
(*   SpecStt   services/stt.py       speech_to_text                        *)
(*   SpecLlm   services/llm.py       generate_response                     *)
(*   SpecVoice captain.py            POST /chat/voice request pipeline     *)
(*   SpecVoiceFair captain.py        the same, with the progress the code  *)
(*                                   guarantees                            *)
(*   SpecVoiceLong captain.py        the same, one request at a time, on a *)
(*                                   session that already holds exchanges  *)
(*                                                                         *)
(* Every specification shares one set of variables; the variables of the   *)
(* components a specification does not exercise stay at their idle value.  *)
(***************************************************************************)
EXTENDS Integers, Sequences, FiniteSets, TLC

VARIABLES
    cache,      \* MemoryStore._cache: dict session_id -> {"messages", "summary"}
    files,      \* the session directory: dict session_id -> text of <sid>.json
    napp,       \* per session: append_message calls since the session was last empty
    memOp,      \* the MemoryStore call that ran last, with its argument and result
    lock,       \* MemoryStore._lock: the thread that holds it, or "none"
    thr,        \* per thread: its MemoryStore call in progress, position and locals
    hist,       \* the MemoryStore calls threads have completed, in order of return
    tts,        \* one text_to_speech call: position, inputs, requests sent, result
    stt_call,   \* one speech_to_text call and the module global _AAI_CONFIGURED
    llm_call,   \* one generate_response call and the module global _GENAI_CONFIGURED
    ship,       \* SHIP_MEMORY.sessions: dict session_id -> list of message dicts
    ship_log,   \* SHIP_MEMORY.ship_log: dict session_id -> session summary
    req,        \* per /chat/voice request: position, locals, stage events, response
    tmpdir,     \* the temporary files that exist, each named by the request that made it
    running,    \* the request the event loop is running between two awaits
    started,    \* /chat/voice requests received so far
    answered    \* the request answered by the last step: its locals, stage events and response

memVars == <<cache, files, napp, memOp>>

voiceVars == <<ship, req, tmpdir, running, started, answered>>

\* what the MemoryStore operations leave alone
nonStoreVars == <<tts, stt_call, llm_call, ship, ship_log, req, tmpdir, running, started, answered>>

\* what a MemoryStore call made from the only thread leaves alone
nonMemVars == <<lock, thr, hist, tts, stt_call, llm_call, ship, ship_log, req, tmpdir, running, started, answered>>

\* what text_to_speech leaves alone
nonTtsVars == <<cache, files, napp, memOp, lock, thr, hist, stt_call, llm_call, ship, ship_log, req, tmpdir, running, started, answered>>

\* what the /chat/voice handler leaves alone: the other components and the
\* session summaries, which no statement of the handler assigns
nonVoiceVars == <<cache, files, napp, memOp, lock, thr, hist, tts, stt_call, llm_call, ship_log>>

\* what speech_to_text leaves alone
nonSttVars == <<cache, files, napp, memOp, lock, thr, hist, tts, llm_call, ship, ship_log, req, tmpdir, running, started, answered>>

\* what generate_response leaves alone
nonLlmVars == <<cache, files, napp, memOp, lock, thr, hist, tts, stt_call, ship, ship_log, req, tmpdir, running, started, answered>>

vars == <<cache, files, napp, memOp, lock, thr, hist, tts, stt_call, llm_call, ship, ship_log, req, tmpdir, running, started, answered>>

(***************************************************************************)
(* Bounds and program constants                                            *)
(***************************************************************************)
\* append_message calls per session before the model stops appending
MaxAppends == 103

\* services/memory.py:50  "if len(msgs) > 100"
MaxMessages == 100

\* services/memory.py:51  "msgs = msgs[-80:]"
KeepMessages == 80

\* the sessions the MemoryStore specification drives
MemSessions == {"s1"}

\* the sessions of the specification of the session directory
DirSessions == {"s1", "s2"}

\* append_message calls, all sessions together, in the specification of the
\* session directory (counted since the sessions were last cleared)
MaxDirAppends == 2

\* the summary and the limit callers pass in that specification (20 is the
\* default limit of get_recent_messages)
DirSummaries == {"X"}
DirLimits == {20}

\* the summaries a caller passes to set_summary
Summaries == {"", "X", "Y"}

(***************************************************************************)
(* Python helpers                                                          *)
(***************************************************************************)
\* the empty dict
EmptyDict == <<>>

\* d[k] = v on a dict
DictSet(d, k, v) == [x \in (DOMAIN d) \cup {k} |-> IF x = k THEN v ELSE d[x]]

\* d.pop(k, None) / unlink of an existing path
DictDel(d, k) == [x \in (DOMAIN d) \ {k} |-> d[x]]

\* seq[-n:] for n > 0
LastN(seq, n) == IF Len(seq) > n THEN SubSeq(seq, Len(seq) - n + 1, Len(seq)) ELSE seq

\* the sequence lo, lo+1, ..., hi
Range(lo, hi) == [i \in 1..(hi - lo + 1) |-> lo + i - 1]

(***************************************************************************)
(* services/memory.py                                                      *)
(***************************************************************************)
\* {"messages": [], "summary": ""}
EmptyEntry == [messages |-> <<>>, summary |-> ""]

\* json.dumps({"messages": msgs, "summary": summary}): the text of a JSON object
JsonDumpsDropsSummary(msgs, summary) == [kind |-> "object", messages |-> msgs, summary |-> ""]
JsonDumps(msgs, summary) == [kind |-> "object", messages |-> msgs, summary |-> summary]

\* what get_messages makes of json.loads(path.read_text()): a legacy list, an
\* object, an exception (the file cannot be read or is not valid JSON), or valid
\* JSON of another type (kind "scalar"), which matches neither isinstance test
LoadsIsList(text) == text.kind = "list"
LoadsIsDict(text) == text.kind = "object"
LoadsRaises(text) == text.kind \in {"unreadable", "garbage"}

\* cache after get_messages(s)
GetMessagesCache(c, f, s) ==
    IF s \in DOMAIN c THEN c
    ELSE IF s \in DOMAIN f
         THEN IF LoadsIsList(f[s])
              THEN DictSet(c, s, [messages |-> f[s].messages, summary |-> ""])
              ELSE IF LoadsIsDict(f[s])
                   THEN DictSet(c, s, [messages |-> f[s].messages, summary |-> f[s].summary])
                   ELSE IF LoadsRaises(f[s])
                        THEN c    \* except Exception: return []
                        ELSE DictSet(c, s, EmptyEntry)    \* falls through to line 41
         ELSE DictSet(c, s, EmptyEntry)

\* return value of get_messages(s)
GetMessagesRetIgnoresDamage(c, f, s) ==
    IF s \in DOMAIN c THEN c[s].messages
    ELSE IF s \in DOMAIN f THEN f[s].messages ELSE <<>>
GetMessagesRet(c, f, s) ==
    IF s \in DOMAIN c THEN c[s].messages
    ELSE IF s \in DOMAIN f /\ (LoadsIsList(f[s]) \/ LoadsIsDict(f[s]))
         THEN f[s].messages
         ELSE <<>>

\* "if len(msgs) > 100: msgs = msgs[-80:]"
TruncateKeepOldest(msgs) ==
    IF Len(msgs) > MaxMessages THEN SubSeq(msgs, 1, KeepMessages) ELSE msgs
Truncate(msgs) ==
    IF Len(msgs) > MaxMessages THEN LastN(msgs, KeepMessages) ELSE msgs

\* entry = self._cache.get(session_id, {"messages": [], "summary": ""})
CacheGet(c, s) == IF s \in DOMAIN c THEN c[s] ELSE EmptyEntry

\* the entry append_message stores for session s
AppendEntry(c, s, m) ==
    [messages |-> Truncate(Append(CacheGet(c, s).messages, m)),
     summary  |-> CacheGet(c, s).summary]

\* path.write_text(text)
WriteTextLost(f, s, text) == f
WriteText(f, s, text) == DictSet(f, s, text)

\* path.unlink() when path.exists()
UnlinkKeeps(f, s) == f
Unlink(f, s) == DictDel(f, s)

\* return value of get_summary(s): loads the entry, then reads the cache
GetSummaryRet(c, f, s) ==
    LET c2 == GetMessagesCache(c, f, s)
        v  == IF s \in DOMAIN c2 THEN c2[s].summary ELSE ""
    IN  v

\* the entry set_summary stores for session s (on the cache get_messages left)
SetSummaryKeepsOld(c2, s, x) == CacheGet(c2, s)
SetSummaryEntry(c2, s, x) == [CacheGet(c2, s) EXCEPT !.summary = x]

\* self._cache.pop(session_id, None): the default makes a missing key no error
PopWithoutDefaultRaises(c, s) == s \notin DOMAIN c
PopRaises(c, s) == FALSE

\* cache after clear_session(s)
ClearCacheAll(c, s) == EmptyDict
ClearCache(c, s) == DictDel(c, s)

\* directory after clear_session(s): "if path.exists(): path.unlink()"
ClearFiles(f, s) == IF s \in DOMAIN f THEN Unlink(f, s) ELSE f

NoOp == [op |-> "none", sid |-> "", arg |-> "", before |-> <<>>,
         cold |-> FALSE, raised |-> FALSE, limit |-> 0, ret |-> <<>>,
         summary |-> "", listed |-> {}, counts |-> EmptyDict]

\* the record of a call: what get_messages(s) returned (or would have) when the
\* call started, and whether the session was then outside the cache
Call(op, s, arg) ==
    [op |-> op, sid |-> s, arg |-> arg,
     before |-> GetMessagesRet(cache, files, s),
     cold |-> s \notin DOMAIN cache, raised |-> FALSE, limit |-> 0, ret |-> <<>>,
     summary |-> GetSummaryRet(cache, files, s), listed |-> {}, counts |-> EmptyDict]

\* MemoryStore.get_messages
GetMessages(s) ==
    /\ cache' = GetMessagesCache(cache, files, s)
    /\ memOp' = Call("get_messages", s, "")
    /\ UNCHANGED <<files, napp>>
    /\ UNCHANGED nonMemVars

\* MemoryStore.append_message; the message is identified by its sequence number
AppendMessage(s) ==
    /\ napp[s] < MaxAppends
    /\ LET m == napp[s] + 1
           e == AppendEntry(cache, s, m)
       IN  /\ cache' = DictSet(cache, s, e)
           /\ files' = WriteText(files, s, JsonDumps(e.messages, e.summary))
           /\ napp' = [napp EXCEPT ![s] = m]
           /\ memOp' = Call("append_message", s, "")
    /\ UNCHANGED nonMemVars

\* MemoryStore.clear_session
ClearSession(s) ==
    /\ IF PopRaises(cache, s)
       THEN /\ memOp' = [Call("clear_session", s, "") EXCEPT !.raised = TRUE]
            /\ UNCHANGED <<cache, files, napp>>
       ELSE /\ cache' = ClearCache(cache, s)
            /\ files' = ClearFiles(files, s)
            /\ napp' = [napp EXCEPT ![s] = 0]
            /\ memOp' = Call("clear_session", s, "")
    /\ UNCHANGED nonMemVars

\* the limits callers pass to get_recent_messages (20 is the default)
RecentLimits == {0, 3, 20}

\* msgs[-limit:] for limit >= 0: -0 is 0, so msgs[-0:] is the whole list
SliceLast(msgs, limit) == IF limit = 0 THEN msgs ELSE LastN(msgs, limit)

\* return value of get_recent_messages on the list get_messages returned
RecentOf(msgs, limit) == IF Len(msgs) > limit THEN SliceLast(msgs, limit) ELSE msgs

\* MemoryStore.get_recent_messages
GetRecentMessages(s, limit) ==
    /\ cache' = GetMessagesCache(cache, files, s)
    /\ memOp' = [Call("get_recent_messages", s, "") EXCEPT
                    !.limit = limit,
                    !.ret = RecentOf(GetMessagesRet(cache, files, s), limit)]
    /\ UNCHANGED <<files, napp>>
    /\ UNCHANGED nonMemVars

\* MemoryStore.error_summary: get_messages, then a count per error_type (the
\* messages of this model carry no error_type)
ErrorSummary(s) ==
    /\ cache' = GetMessagesCache(cache, files, s)
    /\ memOp' = Call("error_summary", s, "")
    /\ UNCHANGED <<files, napp>>
    /\ UNCHANGED nonMemVars

\* return value of sessions(): the cache keys and the stems of *.json (as a set;
\* the code returns them sorted)
SessionsRet(c, f) == (DOMAIN c) \cup (DOMAIN f)

\* MemoryStore.sessions
ListSessions ==
    /\ memOp' = [NoOp EXCEPT !.op = "sessions", !.listed = SessionsRet(cache, files)]
    /\ UNCHANGED <<cache, files, napp>>
    /\ UNCHANGED nonMemVars

\* cache after get_messages(sid) for every sid in ids
RECURSIVE LoadAll(_, _, _)
LoadAll(c, f, ids) ==
    IF ids = {} THEN c
    ELSE LET s == CHOOSE x \in ids : TRUE
         IN  LoadAll(GetMessagesCache(c, f, s), f, ids \ {s})

\* return value of stats(): one entry per listed session, here its message_count
StatsRet(c, f) == [s \in SessionsRet(c, f) |-> Len(GetMessagesRet(c, f, s))]

\* MemoryStore.stats
Stats ==
    /\ cache' = LoadAll(cache, files, SessionsRet(cache, files))
    /\ memOp' = [NoOp EXCEPT !.op = "stats", !.listed = SessionsRet(cache, files),
                             !.counts = StatsRet(cache, files)]
    /\ UNCHANGED <<files, napp>>
    /\ UNCHANGED nonMemVars

\* what a session file can hold that the store did not write: an unreadable
\* file, a text that is not JSON, JSON of another type, a list of the old
\* format; message 7 stands for what such a file holds
ForeignTexts ==
    { [kind |-> k, messages |-> <<7>>, summary |-> ""] :
          k \in {"unreadable", "garbage", "scalar", "list"} }

\* the file of a session is damaged or replaced from outside the store
ForeignFile(s, text) ==
    /\ s \in DOMAIN files
    /\ LoadsIsDict(files[s])
    /\ files' = DictSet(files, s, text)
    /\ memOp' = NoOp
    /\ UNCHANGED <<cache, napp>>
    /\ UNCHANGED nonMemVars

\* append_message within the bound of the specification of the session directory
AppendMessageDir(s) ==
    /\ napp["s1"] + napp["s2"] < MaxDirAppends
    /\ AppendMessage(s)

\* MemoryStore.get_summary
GetSummary(s) ==
    /\ cache' = GetMessagesCache(cache, files, s)
    /\ memOp' = Call("get_summary", s, GetSummaryRet(cache, files, s))
    /\ UNCHANGED <<files, napp>>
    /\ UNCHANGED nonMemVars

\* MemoryStore.set_summary
SetSummary(s, x) ==
    LET c2 == GetMessagesCache(cache, files, s)
        e  == SetSummaryEntry(c2, s, x)
    IN  /\ cache' = DictSet(c2, s, e)
        /\ files' = WriteText(files, s, JsonDumps(e.messages, x))
        /\ memOp' = Call("set_summary", s, x)
        /\ UNCHANGED napp
        /\ UNCHANGED nonMemVars

\* MemoryStore.__init__ on the same directory: a process restart
Restart ==
    /\ cache # EmptyDict
    /\ cache' = EmptyDict
    /\ memOp' = NoOp
    /\ UNCHANGED <<files, napp>>
    /\ UNCHANGED nonMemVars

\* calls the threads of the concurrent specification make in all
MaxThreadCalls == 3

\* the threads that call the store together
Threads == {"t1", "t2"}

\* the operations the threads call
ThreadOps == {"append_message", "get_messages"}

\* a thread outside the store
IdleThread ==
    [pc |-> "idle", op |-> "none", sid |-> "", msg |-> 0, contended |-> FALSE,
     cold |-> FALSE, before |-> <<>>, entry |-> EmptyEntry, ret |-> <<>>]

\* the threads inside a MemoryStore call
InCall == {t \in Threads : thr[t].pc # "idle"}

\* a thread calls append_message or get_messages and reaches "with self._lock";
\* contended records that another thread held the lock at that moment
ThreadCall(t, op, s) ==
    /\ thr[t].pc = "idle"
    /\ Len(hist) + Cardinality(InCall) < MaxThreadCalls
    /\ op = "append_message" => napp[s] < MaxAppends
    /\ thr' = [thr EXCEPT ![t] =
                  [IdleThread EXCEPT !.pc = "waiting", !.op = op, !.sid = s,
                                     !.msg = IF op = "append_message" THEN napp[s] + 1 ELSE 0,
                                     !.contended = lock # "none"]]
    /\ napp' = IF op = "append_message" THEN [napp EXCEPT ![s] = @ + 1] ELSE napp
    /\ UNCHANGED <<cache, files, memOp, lock, hist>>
    /\ UNCHANGED nonStoreVars

\* threading.RLock.acquire from a thread that does not hold the lock: it goes
\* through only while no thread holds it
LockIgnored(holder) == TRUE
LockFree(holder) == holder = "none"

\* "with self._lock:" is entered
Acquire(t) ==
    /\ thr[t].pc = "waiting"
    /\ LockFree(lock)
    /\ lock' = t
    /\ thr' = [thr EXCEPT ![t].pc = "locked"]
    /\ UNCHANGED <<cache, files, napp, memOp, hist>>
    /\ UNCHANGED nonStoreVars

\* append_message, lines 46-52: the entry is read from the cache and the new
\* list is computed.  (For a cached session msgs.append changes the cached list
\* in place already here; no other thread can look before the lock is released,
\* so the model lets the cache change at line 53.)
AppendRead(t) ==
    /\ thr[t].pc = "locked"
    /\ thr[t].op = "append_message"
    /\ thr' = [thr EXCEPT ![t].pc = "store",
                          ![t].cold = thr[t].sid \notin DOMAIN cache,
                          ![t].before = GetMessagesRet(cache, files, thr[t].sid),
                          ![t].entry = AppendEntry(cache, thr[t].sid, thr[t].msg)]
    /\ UNCHANGED <<cache, files, napp, memOp, lock, hist>>
    /\ UNCHANGED nonStoreVars

\* append_message, line 53: self._cache[session_id] = entry
AppendStore(t) ==
    /\ thr[t].pc = "store"
    /\ cache' = DictSet(cache, thr[t].sid, thr[t].entry)
    /\ thr' = [thr EXCEPT ![t].pc = "persist"]
    /\ UNCHANGED <<files, napp, memOp, lock, hist>>
    /\ UNCHANGED nonStoreVars

\* append_message, lines 55-58: the session file is rewritten
AppendPersist(t) ==
    /\ thr[t].pc = "persist"
    /\ files' = WriteText(files, thr[t].sid,
                          JsonDumps(thr[t].entry.messages, thr[t].entry.summary))
    /\ thr' = [thr EXCEPT ![t].pc = "release"]
    /\ UNCHANGED <<cache, napp, memOp, lock, hist>>
    /\ UNCHANGED nonStoreVars

\* get_messages, lines 24-42, inside the lock
GetRun(t) ==
    /\ thr[t].pc = "locked"
    /\ thr[t].op = "get_messages"
    /\ cache' = GetMessagesCache(cache, files, thr[t].sid)
    /\ thr' = [thr EXCEPT ![t].pc = "release",
                          ![t].cold = thr[t].sid \notin DOMAIN cache,
                          ![t].before = GetMessagesRet(cache, files, thr[t].sid),
                          ![t].ret = GetMessagesRet(cache, files, thr[t].sid)]
    /\ UNCHANGED <<files, napp, memOp, lock, hist>>
    /\ UNCHANGED nonStoreVars

\* the with block is left: the lock is released and the call returns; after is
\* what the session holds at that moment
Release(t) ==
    /\ thr[t].pc = "release"
    /\ lock' = IF lock = t THEN "none" ELSE lock
    /\ hist' = Append(hist, [thread |-> t, op |-> thr[t].op, sid |-> thr[t].sid,
                             msg |-> thr[t].msg, contended |-> thr[t].contended,
                             cold |-> thr[t].cold, before |-> thr[t].before,
                             after |-> GetMessagesRet(cache, files, thr[t].sid),
                             ret |-> thr[t].ret])
    /\ thr' = [thr EXCEPT ![t] = IdleThread]
    /\ UNCHANGED <<cache, files, napp, memOp>>
    /\ UNCHANGED nonStoreVars

\* a process restart while no thread is inside the store
RestartQuiet ==
    /\ InCall = {}
    /\ Restart

\* a new MemoryStore on an empty session directory: nothing cached, the lock
\* free, no call in progress
FreshStore ==
    /\ cache = EmptyDict
    /\ files = EmptyDict
    /\ napp = [s \in DirSessions |-> 0]
    /\ memOp = NoOp
    /\ lock = "none"
    /\ thr = [t \in Threads |-> IdleThread]
    /\ hist = <<>>

(***************************************************************************)
(* services/tts.py                                                         *)
(***************************************************************************)
\* services/tts.py:37  "if len(text) > 3000"
MaxTtsText == 3000

\* services/tts.py:38  "text = text[:2950] + '...'"
ClipTtsText == 2950

\* len("...")
EllipsisLen == 3

\* lengths of the texts a caller passes
TextLengths == {0, 12, MaxTtsText, MaxTtsText + 1}

\* the secondary synthesis: gTTS not importable, gTTS works, gTTS raises
GttsBehaviours == {"unavailable", "ok", "raises"}

\* what the primary provider does with one request
ProviderResponses ==
    {"non200", "timeout", "exception",      \* no HTTP 200 answer
     "200_badjson",                         \* HTTP 200, body is not JSON
     "200_url",                             \* HTTP 200, object with audioFile / url / audioUrl
     "200_b64",                             \* HTTP 200, object with audioData / audioBase64 only
     "200_noaudio",                         \* HTTP 200, object without an audio field
     "200_nonobject"}                       \* HTTP 200, JSON array / string / number / null

\* header_variants x payload_variants in iteration order (headers outer)
RequestVariants ==
    << <<"bearer", "voiceId">>, <<"bearer", "voice">>,
       <<"api-key", "voiceId">>, <<"api-key", "voice">> >>

\* a text is modelled by its length and whether it was cut
Text(n) == [len |-> n, cut |-> FALSE]

\* "if len(text) > 3000: text = text[:2950] + '...'"
ClipText(t) ==
    IF t.len > MaxTtsText THEN [len |-> ClipTtsText + EllipsisLen, cut |-> TRUE] ELSE t

\* _generate_fallback_audio(text, logger)
GenerateFallbackAudio(t, g) ==
    IF g = "unavailable" THEN [kind |-> "text_only", text |-> t]
    ELSE IF g = "ok" THEN [kind |-> "inline", text |-> t]
    ELSE [kind |-> "text_only", text |-> t]     \* except Exception

\* attempt_murf_request: (success, data)
AttemptSuccess(r) == r \in {"200_url", "200_b64", "200_noaudio", "200_nonobject"}

\* result.get(...) on the data of a successful attempt: AttributeError unless
\* the JSON body is an object
ResultGetRaises(r) == AttemptSuccess(r) /\ r = "200_nonobject"

\* "if audio_url: return ..." / "if audio_data: return ...": the body of a
\* successful attempt names an audio reference
HasAudioRef(r) == AttemptSuccess(r) /\ r \in {"200_url", "200_b64"}

\* one call: the text the caller passed (input), the text the function works
\* with, the requests sent, the answers got and the texts handed to the
\* secondary synthesis, each in order
TtsIdle ==
    [pc |-> "idle", configured |-> FALSE, gtts |-> "ok", input |-> Text(0), text |-> Text(0),
     sent |-> <<>>, got |-> <<>>, synth |-> <<>>,
     ret |-> [success |-> FALSE, payload |-> "none", error |-> "none"]]

\* the (success, payload, error) tuple text_to_speech returns
TtsTuple(payload) == [success |-> TRUE, payload |-> payload, error |-> "none"]

\* "if not murf_configured: return True, _generate_fallback_audio(text, logger), None"
UnconfiguredFails(t, g) ==
    [success |-> FALSE, payload |-> [kind |-> "none", text |-> t], error |-> "config_error"]
UnconfiguredReturn(t, g) == TtsTuple(GenerateFallbackAudio(t, g))

\* text_to_speech up to its first await: the unconfigured return, or the first request
TtsCall(cfg, g, n) ==
    /\ tts.pc = "idle"
    /\ IF ~cfg
       THEN tts' = [TtsIdle EXCEPT !.pc = "done", !.configured = cfg, !.gtts = g,
                                   !.input = Text(n),
                                   !.text = Text(n),
                                   !.synth = <<Text(n)>>,
                                   !.ret = UnconfiguredReturn(Text(n), g)]
       ELSE tts' = [TtsIdle EXCEPT !.pc = "await", !.configured = cfg, !.gtts = g,
                                   !.input = Text(n),
                                   !.text = ClipText(Text(n)),
                                   !.sent = <<RequestVariants[1]>>]
    /\ UNCHANGED nonTtsVars

\* the provider's answer to the request in flight, up to the next await or the return
TtsResponse(r) ==
    /\ tts.pc = "await"
    /\ LET t == [tts EXCEPT !.got = Append(@, r)]
       IN  IF ResultGetRaises(r)
           THEN tts' = [t EXCEPT !.pc = "raised"]
           ELSE IF HasAudioRef(r) /\ r = "200_url"
           THEN tts' = [t EXCEPT !.pc = "done", !.ret = TtsTuple([kind |-> "url", text |-> tts.text])]
           ELSE IF HasAudioRef(r)
           THEN tts' = [t EXCEPT !.pc = "done", !.ret = TtsTuple([kind |-> "inline", text |-> tts.text])]
           ELSE IF Len(tts.sent) < Len(RequestVariants)
           THEN tts' = [t EXCEPT !.sent = Append(@, RequestVariants[Len(@) + 1])]
           ELSE tts' = [t EXCEPT !.pc = "done",
                                 !.synth = <<tts.text>>,
                                 !.ret = TtsTuple(GenerateFallbackAudio(tts.text, tts.gtts))]
    /\ UNCHANGED nonTtsVars

\* the caller takes the result (or the exception); the next call may start
TtsReturn ==
    /\ tts.pc \in {"done", "raised"}
    /\ tts' = TtsIdle
    /\ UNCHANGED nonTtsVars

(***************************************************************************)
(* services/stt.py                                                         *)
(***************************************************************************)
\* a text is a sequence of characters; " " stands for any whitespace
RECURSIVE LStrip(_)
LStrip(t) == IF t # <<>> /\ Head(t) = " " THEN LStrip(Tail(t)) ELSE t

RECURSIVE RStrip(_)
RStrip(t) == IF t # <<>> /\ t[Len(t)] = " " THEN RStrip(SubSeq(t, 1, Len(t) - 1)) ELSE t

\* str.strip()
StripLeftOnly(t) == LStrip(t)
Strip(t) == RStrip(LStrip(t))

\* the audio file at file_path: absent, of size 0, or holding audio
AudioFiles == {"missing", "empty", "audio"}

\* transcript.text as the provider may deliver it
TranscriptTexts ==
    { <<>>, <<" ">>, <<" ", " ">>, <<"a">>, <<" ", "a">>, <<"a", " ">>,
      <<" ", "a", " ">>, <<"a", " ", "b">> }

\* what transcriber.transcribe does: raises a requests exception, raises another
\* exception, reports status error, or completes with a text (None when absent)
SttProviderOutcomes ==
    { [kind |-> k, none |-> FALSE, text |-> <<>>] :
          k \in {"request_exception", "exception", "status_error"} }
    \cup { [kind |-> "completed", none |-> TRUE, text |-> <<>>] }
    \cup { [kind |-> "completed", none |-> FALSE, text |-> t] : t \in TranscriptTexts }

\* the checks before the provider is called: "if not api_configured", then
\* "if not os.path.exists(file_path) or os.path.getsize(file_path) == 0"
PrecheckFileFirst(cfg, file) ==
    IF file \in {"missing", "empty"} THEN "file_error"
    ELSE IF ~cfg THEN "config_error" ELSE "ok"
Precheck(cfg, file) ==
    IF ~cfg THEN "config_error"
    ELSE IF file \in {"missing", "empty"} THEN "file_error" ELSE "ok"

\* (success, text, error) of a failed call
SttFailure(error) == [success |-> FALSE, text |-> <<>>, error |-> error]

\* "text = (transcript.text or '').strip()"
TranscriptText(o) == Strip(IF o.none THEN <<>> ELSE o.text)

\* what speech_to_text returns once the provider has been called
AfterTranscribe(o) ==
    IF o.kind = "request_exception" THEN SttFailure("network_error")
    ELSE IF o.kind = "exception" THEN SttFailure("stt_error")
    ELSE IF o.kind = "status_error" THEN SttFailure("stt_error")
    ELSE IF TranscriptText(o) = <<>> THEN SttFailure("stt_error")
    ELSE [success |-> TRUE, text |-> TranscriptText(o), error |-> "none"]

\* speech_to_text(file_path, session_id, logger, api_configured)
SpeechToText(cfg, file, o) ==
    IF Precheck(cfg, file) # "ok" THEN SttFailure(Precheck(cfg, file)) ELSE AfterTranscribe(o)

\* "if api_configured and not _AAI_CONFIGURED: ... if key: _AAI_CONFIGURED = True"
AaiConfigured(flag, cfg, key) == IF cfg /\ ~flag /\ key THEN TRUE ELSE flag

SttIdle ==
    [pc |-> "idle", aai_configured |-> FALSE, configured |-> FALSE, key |-> FALSE,
     file |-> "missing", provider |-> [kind |-> "exception", none |-> FALSE, text |-> <<>>],
     called |-> FALSE, ret |-> SttFailure("none")]

\* one call of speech_to_text; it has no suspension point
SttCall(cfg, key, file, o) ==
    /\ stt_call.pc = "idle"
    /\ stt_call' = [pc |-> "done",
                    aai_configured |-> AaiConfigured(stt_call.aai_configured, cfg, key),
                    configured |-> cfg, key |-> key, file |-> file, provider |-> o,
                    called |-> Precheck(cfg, file) = "ok",
                    ret |-> SpeechToText(cfg, file, o)]
    /\ UNCHANGED nonSttVars

\* the caller takes the result; _AAI_CONFIGURED stays as the call left it
SttReturn ==
    /\ stt_call.pc = "done"
    /\ stt_call' = [SttIdle EXCEPT !.aai_configured = stt_call.aai_configured]
    /\ UNCHANGED nonSttVars

(***************************************************************************)
(* services/llm.py                                                         *)
(***************************************************************************)
\* response.text as the provider may deliver it
LlmTexts ==
    { <<>>, <<" ">>, <<" ", " ">>, <<"a">>, <<" ", "a">>, <<"a", " ">>,
      <<" ", "a", " ">>, <<"a", " ", "b">>, <<"a", "b">>, <<" ", "a", "b">> }

\* what model.generate_content does: raises BlockedPromptException, raises a
\* requests exception, raises another exception, returns a falsy response,
\* returns a response without a text (missing or None), or returns a text
LlmProviderOutcomes ==
    { [kind |-> k, text |-> <<>>] :
          k \in {"blocked", "request_exception", "exception", "no_response", "no_text"} }
    \cup { [kind |-> "completed", text |-> t] : t \in LlmTexts }

\* "I'm sorry, I can't respond to that type of request. Could you please ask
\* something else?"
ApologyText == <<"I'm sorry, I can't respond to that type of request.">>

\* (success, text, error) of a failed call
LlmFailure(error) == [success |-> FALSE, text |-> <<>>, error |-> error]

\* "except genai.types.BlockedPromptException: return True, fallback, None"
BlockedIsLlmError == LlmFailure("llm_error")
BlockedReturn == [success |-> TRUE, text |-> ApologyText, error |-> "none"]

\* "if not response or not getattr(response, 'text', None)"
EmptyBodyOnlyMissingResponse(o) == o.kind = "no_response"
EmptyBody(o) == o.kind \in {"no_response", "no_text"} \/ (o.kind = "completed" /\ o.text = <<>>)

\* "except requests.exceptions.RequestException: return False, '', NETWORK_ERROR"
NetworkIsLlmError == LlmFailure("llm_error")
NetworkReturn == LlmFailure("network_error")

\* what generate_response returns once it has called the provider
AfterGenerate(o) ==
    IF o.kind = "blocked" THEN BlockedReturn
    ELSE IF o.kind = "request_exception" THEN NetworkReturn
    ELSE IF o.kind = "exception" THEN LlmFailure("llm_error")
    ELSE IF EmptyBody(o) THEN LlmFailure("llm_error")
    ELSE [success |-> TRUE, text |-> Strip(o.text), error |-> "none"]

\* generate_response(prompt, session_id, logger, api_configured)
GenerateResponse(cfg, o) == IF ~cfg THEN LlmFailure("config_error") ELSE AfterGenerate(o)

\* "if api_configured and not _GENAI_CONFIGURED: ... if key: _GENAI_CONFIGURED = True"
GenaiConfigured(flag, cfg, key) == IF cfg /\ ~flag /\ key THEN TRUE ELSE flag

LlmIdle ==
    [pc |-> "idle", genai_configured |-> FALSE, configured |-> FALSE, key |-> FALSE,
     provider |-> [kind |-> "exception", text |-> <<>>],
     called |-> FALSE, ret |-> LlmFailure("none")]

\* one call of generate_response; it is synchronous
LlmCall(cfg, key, o) ==
    /\ llm_call.pc = "idle"
    /\ llm_call' = [pc |-> "done",
                    genai_configured |-> GenaiConfigured(llm_call.genai_configured, cfg, key),
                    configured |-> cfg, key |-> key, provider |-> o,
                    called |-> cfg,
                    ret |-> GenerateResponse(cfg, o)]
    /\ UNCHANGED nonLlmVars

\* the caller takes the result; _GENAI_CONFIGURED stays as the call left it
LlmReturn ==
    /\ llm_call.pc = "done"
    /\ llm_call' = [LlmIdle EXCEPT !.genai_configured = llm_call.genai_configured]
    /\ UNCHANGED nonLlmVars

\* no adapter call in progress
AdaptersIdle ==
    /\ tts = TtsIdle
    /\ stt_call = SttIdle
    /\ llm_call = LlmIdle

(***************************************************************************)
(* captain.py: POST /chat/voice                                            *)
(***************************************************************************)
\* /chat/voice requests the model receives
MaxRequests == 2

\* the requests that can be in flight together
Requests == {"r1", "r2"}

\* the session ids callers send
VoiceSessions == {"a", "b"}

\* session ids are opaque: a caller's new session id is taken to be the first
\* one that no stored history and no request in flight uses
SessionsInUse == (DOMAIN ship) \cup {req[r].sid : r \in {x \in Requests : req[x].pc # "idle"}}
SessionChoices == SessionsInUse \cup (IF "a" \in SessionsInUse THEN {"b"} ELSE {"a"})

\* audio.content_type of an upload (None is "none")
ContentTypes == {"audio/webm", "video/webm", "text/plain", "none"}

\* "audio.content_type and (startswith('audio/') or startswith('video/'))"
AudioLike(ctype) == ctype \in {"audio/webm", "video/webm"}

\* what "await audio.read()" yields: no bytes, some bytes, or an I/O error
ReadOutcomes == {"empty", "bytes", "raises"}

\* the speech-to-text provider, as transcribe_speech meets it; a transcript is
\* modelled by the skill keyword it contains
SttOutcomes ==
    {"no_key", "status_error", "blank", "exception",
     "says_plain", "says_weather", "says_news", "says_shanty"}

\* transcribe_speech: (success, text, error)
TranscribeSpeech(o) ==
    CASE o = "no_key"       -> [success |-> FALSE, text |-> "ears failing", error |-> "config_error"]
      [] o = "status_error" -> [success |-> FALSE, text |-> "couldn't make out", error |-> "stt_error"]
      [] o = "blank"        -> [success |-> FALSE, text |-> "heard the wind", error |-> "stt_error"]
      [] o = "exception"    -> [success |-> FALSE, text |-> "sea be rough", error |-> "stt_error"]
      [] o = "says_plain"   -> [success |-> TRUE, text |-> "plain", error |-> "none"]
      [] o = "says_weather" -> [success |-> TRUE, text |-> "weather", error |-> "none"]
      [] o = "says_news"    -> [success |-> TRUE, text |-> "news", error |-> "none"]
      [] OTHER              -> [success |-> TRUE, text |-> "shanty", error |-> "none"]

\* the LLM provider, as get_pirate_response meets it
LlmOutcomes == {"no_key", "empty", "exception", "pirate_text", "plain_text", "blank_text"}

\* get_pirate_response: (success, text, error)
GetPirateResponse(o) ==
    CASE o = "no_key"      -> [success |-> FALSE, text |-> "brain be foggy", error |-> "config_error"]
      [] o = "empty"       -> [success |-> FALSE, text |-> "thoughts be scattered", error |-> "llm_error"]
      [] o = "exception"   -> [success |-> FALSE, text |-> "mind's gone blank", error |-> "llm_error"]
      [] o = "pirate_text" -> [success |-> TRUE, text |-> "Arrr reply", error |-> "none"]
      [] o = "plain_text"  -> [success |-> TRUE, text |-> "Ahoy! reply Arrr!", error |-> "none"]
      [] OTHER             -> [success |-> TRUE, text |-> "Ahoy!  Arrr!", error |-> "none"]

\* "Blast! Me thinking be all muddled! What was that again?"
LlmFallbackText == "Blast! Me thinking be all muddled! What was that again?"

\* the weather and news skills: missing key, provider error, exception, empty
\* result, or a report (which the skill itself logs to the session)
WeatherOutcomes == {"no_key", "http_error", "exception", "report"}
NewsOutcomes == {"no_key", "http_error", "exception", "no_articles", "report"}

\* result.get("pirate_report") or result.get("error", ...)
WeatherText(o) == IF o = "report" THEN "weather report" ELSE "weather error"

\* result.get("news") or result.get("message") or result.get("error", ...)
NewsText(o) ==
    IF o = "report" THEN "news report"
    ELSE IF o = "no_articles" THEN "no fresh tales" ELSE "news error"

\* the TTS provider, as generate_pirate_speech meets it after its request
SpeechOutcomes == {"non200", "no_audio", "exception", "audio"}

\* generate_pirate_speech: (success, audio_data, error)
GeneratePirateSpeech(o) ==
    CASE o = "no_key" -> [success |-> FALSE, audio |-> "None", error |-> "config_error"]
      [] o = "audio"  -> [success |-> TRUE, audio |-> "encodedAudio", error |-> "none"]
      [] OTHER        -> [success |-> FALSE, audio |-> "None", error |-> "tts_error"]

\* a message dict; turn stands for its timestamp
Message(role, content, errorType, turn) ==
    [role |-> role, content |-> content, error_type |-> errorType, turn |-> turn]

\* a stage the handler went through: the adapter called or the message logged
Event(ev, role, content, errorType) ==
    [ev |-> ev, role |-> role, content |-> content, error_type |-> errorType]

\* PirateMemoryStore.get_crew_messages
GetCrewMessages(sessions, sid) == IF sid \in DOMAIN sessions THEN sessions[sid] ELSE <<>>

\* PirateMemoryStore.log_message
LogMessage(sessions, sid, msg) == DictSet(sessions, sid, Append(GetCrewMessages(sessions, sid), msg))

\* PirateMemoryStore.get_recent_voyage_log
GetRecentKeepsOldest(sessions, sid, limit) ==
    LET messages == GetCrewMessages(sessions, sid)
    IN  IF Len(messages) > limit THEN SubSeq(messages, 1, limit) ELSE messages
GetRecentVoyageLog(sessions, sid, limit) ==
    LET messages == GetCrewMessages(sessions, sid)
    IN  IF Len(messages) > limit THEN LastN(messages, limit) ELSE messages

\* limit of the recent_messages window of a response
RecentLimit == 6

\* limit of the history window of a prompt
PromptHistoryLimit == 8

\* "if content and not msg.get('error_type')", and the two roles that get a line
InPrompt(msg) ==
    /\ msg.content # ""
    /\ msg.error_type = "none"
    /\ msg.role \in {"user", "assistant"}

\* f"Crew Member: {content}" / f"Captain Blackbeard: {content}"
PromptLine(role, content) ==
    [speaker |-> IF role = "user" THEN "Crew Member" ELSE "Captain Blackbeard",
     content |-> content]

\* the lines of a history window, one per message
HistoryLines(history) == [i \in 1..Len(history) |-> PromptLine(history[i].role, history[i].content)]

\* build_pirate_conversation_prompt: persona, header, the history lines that pass
\* the filter, the new message and the cue for the answer
BuildPromptKeepsErrors(sessions, sid, new_message) ==
    LET history == GetRecentVoyageLog(sessions, sid, PromptHistoryLimit)
    IN  << [speaker |-> "system", content |-> "persona"],
           [speaker |-> "header", content |-> "RECENT VOYAGE LOG"] >>
        \o HistoryLines(history)
        \o << PromptLine("user", new_message), PromptLine("assistant", "") >>
BuildPirateConversationPrompt(sessions, sid, new_message) ==
    LET history == GetRecentVoyageLog(sessions, sid, PromptHistoryLimit)
    IN  << [speaker |-> "system", content |-> "persona"],
           [speaker |-> "header", content |-> "RECENT VOYAGE LOG"] >>
        \o HistoryLines(SelectSeq(history, InPrompt))
        \o << PromptLine("user", new_message), PromptLine("assistant", "") >>

NoResponse == [status |-> 0]

\* a request that has not arrived; exit names the return statement a request
\* left the handler through
IdleRequest ==
    [pc |-> "idle", sid |-> "", turn |-> 0, tmp_path |-> 0, exit |-> "",
     stt |-> [success |-> FALSE, text |-> "", error |-> "none"],
     prompt |-> <<>>,
     response_text |-> "", llm_error |-> "none", llm_called |-> FALSE, llm_success |-> FALSE,
     speech |-> [success |-> FALSE, audio |-> "None", error |-> "none"],
     events |-> <<>>, resp |-> NoResponse]

\* JSONResponse({"error": ..., "session_id": ...}, status_code=...)
ErrorJson(status, text, sid) ==
    [status |-> status, error |-> text, session_id |-> sid]

\* the 400 answer to a failed transcription
SttFailureAlwaysSttError(sid, res) ==
    [status |-> 400, error |-> res.text, session_id |-> sid, transcription_error |-> "stt_error"]
SttFailureJson(sid, res) ==
    [status |-> 400, error |-> res.text, session_id |-> sid, transcription_error |-> res.error]

\* the dict the handler returns after the TTS stage (status 200)
SuccessJsonNeedsAudio(q, sessions) ==
    IF q.speech.success
    THEN [status |-> 200, session_id |-> q.sid, response |-> q.response_text]
    ELSE ErrorJson(500, "no voice", q.sid)
SuccessJson(q, sessions) ==
    [status |-> 200,
     session_id |-> q.sid,
     transcribed_text |-> q.stt.text,
     response |-> q.response_text,
     message_count |-> Len(GetCrewMessages(sessions, q.sid)),
     recent_messages |-> GetRecentVoyageLog(sessions, q.sid, RecentLimit),
     has_audio |-> q.speech.success,
     audio_data |-> IF q.speech.success THEN q.speech.audio ELSE "None",
     errors |-> [stt_error |-> q.stt.error, llm_error |-> q.llm_error,
                 tts_error |-> q.speech.error]]

\* "finally: if tmp_path and os.path.exists(tmp_path): os.remove(tmp_path)"
Cleanup(dir, q) == IF q.tmp_path # 0 /\ q.tmp_path \in dir THEN dir \ {q.tmp_path} ELSE dir

\* requests are told apart by their turn, not by the slot that holds them: a new
\* request takes the first slot that is free
FirstFreeSlot(r) ==
    /\ req[r].pc = "idle"
    /\ r = "r2" => req["r1"].pc # "idle"

\* the handler returns resp through "finally": the temporary file is cleaned up,
\* the answer goes out and the slot is free again
Answer(r, q, resp) ==
    /\ answered' = [q EXCEPT !.pc = "done", !.resp = resp]
    /\ req' = [req EXCEPT ![r] = IdleRequest]
    /\ tmpdir' = Cleanup(tmpdir, q)

\* entry of the handler: the content-type check, then the temporary file is
\* created and the handler awaits the upload
VoiceReceive(r, sid, ctype) ==
    /\ FirstFreeSlot(r)
    /\ sid \in SessionChoices
    /\ running = "none"
    /\ started < MaxRequests
    /\ started' = started + 1
    /\ IF ~AudioLike(ctype)
       THEN /\ answered' = [IdleRequest EXCEPT !.pc = "done", !.sid = sid, !.turn = started + 1,
                                !.exit = "bad_content_type",
                                !.resp = ErrorJson(400, "not proper audio", sid)]
            /\ UNCHANGED <<req, tmpdir>>
       ELSE /\ req' = [req EXCEPT ![r] =
                          [IdleRequest EXCEPT !.pc = "reading", !.sid = sid, !.turn = started + 1]]
            /\ tmpdir' = tmpdir \cup {started + 1}
            /\ answered' = IdleRequest
    /\ UNCHANGED <<ship, running>>
    /\ UNCHANGED nonVoiceVars

\* "content = await audio.read()" resumes: empty upload, written upload, or error
VoiceRead(r, o) ==
    /\ req[r].pc = "reading"
    /\ running = "none"
    /\ IF o = "raises"
       THEN /\ Answer(r, [req[r] EXCEPT !.exit = "exception"],
                      ErrorJson(500, "seas be too rough", req[r].sid))
            /\ UNCHANGED running
       ELSE IF o = "empty"
       THEN /\ Answer(r, [req[r] EXCEPT !.exit = "empty_upload"],
                      ErrorJson(400, "empty bottle", req[r].sid))
            /\ UNCHANGED running
       ELSE /\ req' = [req EXCEPT ![r].pc = "transcribing", ![r].tmp_path = req[r].turn]
            /\ running' = r
            /\ answered' = IdleRequest
            /\ UNCHANGED tmpdir
    /\ UNCHANGED <<ship, started>>
    /\ UNCHANGED nonVoiceVars

\* "await transcribe_speech(tmp_path, session_id)" and the abort on its failure
VoiceTranscribe(r, o) ==
    /\ req[r].pc = "transcribing"
    /\ running = r
    /\ LET res == TranscribeSpeech(o)
           q   == [req[r] EXCEPT !.stt = res, !.events = Append(@, Event("stt", "", "", ""))]
       IN  IF ~res.success
           THEN /\ Answer(r, [q EXCEPT !.exit = "stt_failure"], SttFailureJson(q.sid, res))
                /\ running' = "none"
           ELSE /\ req' = [req EXCEPT ![r] = [q EXCEPT !.pc = "transcribed"]]
                /\ answered' = IdleRequest
                /\ UNCHANGED <<tmpdir, running>>
    /\ UNCHANGED <<ship, started>>
    /\ UNCHANGED nonVoiceVars

\* SHIP_MEMORY.log_message(session_id, {"role": "user", ...})
VoiceLogUser(r) ==
    /\ req[r].pc = "transcribed"
    /\ running = r
    /\ LET msg == Message("user", req[r].stt.text, "none", req[r].turn)
       IN  /\ ship' = LogMessage(ship, req[r].sid, msg)
           /\ req' = [req EXCEPT ![r].pc = "generating",
                                 ![r].events = Append(@, Event("log", msg.role, msg.content, msg.error_type))]
    /\ answered' = IdleRequest
    /\ UNCHANGED <<tmpdir, running, started>>
    /\ UNCHANGED nonVoiceVars

\* "if 'weather' in lower": get_weather, which logs its own report
VoiceWeather(r, o) ==
    /\ req[r].pc = "generating"
    /\ running = r
    /\ req[r].stt.text = "weather"
    /\ LET msg == Message("assistant", "weather report", "none", req[r].turn)
       IN  /\ ship' = IF o = "report" THEN LogMessage(ship, req[r].sid, msg) ELSE ship
           /\ req' = [req EXCEPT ![r].pc = "generated",
                                 ![r].response_text = WeatherText(o),
                                 ![r].events = IF o = "report"
                                               THEN Append(@, Event("skill_log", msg.role, msg.content, msg.error_type)) ELSE @]
    /\ answered' = IdleRequest
    /\ UNCHANGED <<tmpdir, running, started>>
    /\ UNCHANGED nonVoiceVars

\* "elif 'news' in lower": get_news, which logs its own report
VoiceNews(r, o) ==
    /\ req[r].pc = "generating"
    /\ running = r
    /\ req[r].stt.text = "news"
    /\ LET msg == Message("assistant", "news report", "none", req[r].turn)
       IN  /\ ship' = IF o = "report" THEN LogMessage(ship, req[r].sid, msg) ELSE ship
           /\ req' = [req EXCEPT ![r].pc = "generated",
                                 ![r].response_text = NewsText(o),
                                 ![r].events = IF o = "report"
                                               THEN Append(@, Event("skill_log", msg.role, msg.content, msg.error_type)) ELSE @]
    /\ answered' = IdleRequest
    /\ UNCHANGED <<tmpdir, running, started>>
    /\ UNCHANGED nonVoiceVars

\* "elif 'shanty' in lower": generate_sea_shanty
VoiceShanty(r) ==
    /\ req[r].pc = "generating"
    /\ running = r
    /\ req[r].stt.text = "shanty"
    /\ req' = [req EXCEPT ![r].pc = "generated", ![r].response_text = "shanty"]
    /\ answered' = IdleRequest
    /\ UNCHANGED <<ship, tmpdir, running, started>>
    /\ UNCHANGED nonVoiceVars

\* the text the handler keeps after get_pirate_response
LlmKeepsAdapterText(res) == res.text
LlmResponseText(res) == IF res.success THEN res.text ELSE LlmFallbackText

\* "if not response_text": build the prompt, call get_pirate_response, fall back
VoiceLlm(r, o) ==
    /\ req[r].pc = "generating"
    /\ running = r
    /\ req[r].stt.text = "plain"
    /\ LET res == GetPirateResponse(o)
       IN  req' = [req EXCEPT ![r].pc = "generated",
                              ![r].prompt = BuildPirateConversationPrompt(ship, req[r].sid, req[r].stt.text),
                              ![r].response_text = LlmResponseText(res),
                              ![r].llm_error = res.error,
                              ![r].llm_called = TRUE,
                              ![r].llm_success = res.success,
                              ![r].events = Append(@, Event("llm", "", "", ""))]
    /\ answered' = IdleRequest
    /\ UNCHANGED <<ship, tmpdir, running, started>>
    /\ UNCHANGED nonVoiceVars

\* SHIP_MEMORY.log_message(session_id, {"role": "assistant", ...})
VoiceLogAssistant(r) ==
    /\ req[r].pc = "generated"
    /\ running = r
    /\ LET msg == Message("assistant", req[r].response_text, req[r].llm_error, req[r].turn)
       IN  /\ ship' = LogMessage(ship, req[r].sid, msg)
           /\ req' = [req EXCEPT ![r].pc = "synthesizing",
                                 ![r].events = Append(@, Event("log", msg.role, msg.content, msg.error_type))]
    /\ answered' = IdleRequest
    /\ UNCHANGED <<tmpdir, running, started>>
    /\ UNCHANGED nonVoiceVars

\* generate_pirate_speech up to its await: returns at once without a key,
\* otherwise posts the request and suspends
VoiceSpeech(r, hasKey) ==
    /\ req[r].pc = "synthesizing"
    /\ running = r
    /\ IF ~hasKey
       THEN /\ req' = [req EXCEPT ![r].pc = "assembling",
                                  ![r].speech = GeneratePirateSpeech("no_key"),
                                  ![r].events = Append(@, Event("tts", "", req[r].response_text, ""))]
            /\ UNCHANGED running
       ELSE /\ req' = [req EXCEPT ![r].pc = "awaiting_speech",
                                  ![r].events = Append(@, Event("tts", "", req[r].response_text, ""))]
            /\ running' = "none"
    /\ answered' = IdleRequest
    /\ UNCHANGED <<ship, tmpdir, started>>
    /\ UNCHANGED nonVoiceVars

\* the TTS provider's answer resumes generate_pirate_speech
VoiceSpeechDone(r, o) ==
    /\ req[r].pc = "awaiting_speech"
    /\ running = "none"
    /\ req' = [req EXCEPT ![r].pc = "assembling", ![r].speech = GeneratePirateSpeech(o)]
    /\ running' = r
    /\ answered' = IdleRequest
    /\ UNCHANGED <<ship, tmpdir, started>>
    /\ UNCHANGED nonVoiceVars

\* the handler builds its answer and leaves through "finally"
VoiceRespond(r) ==
    /\ req[r].pc = "assembling"
    /\ running = r
    /\ Answer(r, [req[r] EXCEPT !.exit = "success"], SuccessJson(req[r], ship))
    /\ running' = "none"
    /\ UNCHANGED <<ship, started>>
    /\ UNCHANGED nonVoiceVars

\* no request in flight, no temporary file, no summary written
NoRequest ==
    /\ ship_log = EmptyDict
    /\ req = [r \in Requests |-> IdleRequest]
    /\ tmpdir = {}
    /\ running = "none"
    /\ started = 0
    /\ answered = IdleRequest

\* the server after start-up: empty SHIP_MEMORY, no request, no temporary file
VoiceIdle ==
    /\ ship = EmptyDict
    /\ NoRequest

\* exchanges a session may already hold when the model takes over
PriorExchanges == 4

\* the messages k earlier plain requests left in a session, each answered by
\* the LLM (turn 0 stands for their timestamps)
PriorHistory(k) ==
    [i \in 1..(2 * k) |->
        IF i % 2 = 1 THEN Message("user", "plain", "none", 0)
                     ELSE Message("assistant", "Arrr reply", "none", 0)]

\* SHIP_MEMORY.sessions after k earlier requests on session "a"
PriorShip(k) == IF k = 0 THEN EmptyDict ELSE DictSet(EmptyDict, "a", PriorHistory(k))

\* the request slot used when requests come one after another
OneAtATime == {"r1"}

(***************************************************************************)
(* Specifications                                                          *)
(***************************************************************************)
InitMem == FreshStore /\ AdaptersIdle /\ VoiceIdle

NextMem ==
    \/ \E s \in MemSessions : GetMessages(s)
    \/ \E s \in MemSessions, limit \in RecentLimits : GetRecentMessages(s, limit)
    \/ \E s \in MemSessions : AppendMessage(s)
    \/ \E s \in MemSessions : ClearSession(s)
    \/ \E s \in MemSessions : GetSummary(s)
    \/ \E s \in MemSessions, x \in Summaries : SetSummary(s, x)
    \/ Restart

SpecMem == InitMem /\ [][NextMem]_vars

InitMemDir == FreshStore /\ AdaptersIdle /\ VoiceIdle

NextMemDir ==
    \/ \E s \in DirSessions : GetMessages(s)
    \/ \E s \in DirSessions, limit \in DirLimits : GetRecentMessages(s, limit)
    \/ \E s \in DirSessions : ErrorSummary(s)
    \/ \E s \in DirSessions : AppendMessageDir(s)
    \/ \E s \in DirSessions : ClearSession(s)
    \/ \E s \in DirSessions : GetSummary(s)
    \/ \E s \in DirSessions, x \in DirSummaries : SetSummary(s, x)
    \/ ListSessions
    \/ Stats
    \/ \E s \in DirSessions, text \in ForeignTexts : ForeignFile(s, text)
    \/ Restart

SpecMemDir == InitMemDir /\ [][NextMemDir]_vars

InitMemConc == FreshStore /\ AdaptersIdle /\ VoiceIdle

NextMemConc ==
    \/ \E t \in Threads, op \in ThreadOps, s \in MemSessions : ThreadCall(t, op, s)
    \/ \E t \in Threads : Acquire(t)
    \/ \E t \in Threads : AppendRead(t)
    \/ \E t \in Threads : AppendStore(t)
    \/ \E t \in Threads : AppendPersist(t)
    \/ \E t \in Threads : GetRun(t)
    \/ \E t \in Threads : Release(t)
    \/ RestartQuiet

SpecMemConc == InitMemConc /\ [][NextMemConc]_vars

InitTts == FreshStore /\ AdaptersIdle /\ VoiceIdle

NextTts ==
    \/ \E cfg \in BOOLEAN, g \in GttsBehaviours, n \in TextLengths : TtsCall(cfg, g, n)
    \/ \E r \in ProviderResponses : TtsResponse(r)
    \/ TtsReturn

SpecTts == InitTts /\ [][NextTts]_vars

InitStt == FreshStore /\ AdaptersIdle /\ VoiceIdle

NextStt ==
    \/ \E cfg \in BOOLEAN, key \in BOOLEAN, file \in AudioFiles, o \in SttProviderOutcomes :
           SttCall(cfg, key, file, o)
    \/ SttReturn

SpecStt == InitStt /\ [][NextStt]_vars

InitLlm == FreshStore /\ AdaptersIdle /\ VoiceIdle

NextLlm ==
    \/ \E cfg \in BOOLEAN, key \in BOOLEAN, o \in LlmProviderOutcomes : LlmCall(cfg, key, o)
    \/ LlmReturn

SpecLlm == InitLlm /\ [][NextLlm]_vars

InitVoice == FreshStore /\ AdaptersIdle /\ VoiceIdle

NextVoice ==
    \/ \E r \in Requests, sid \in VoiceSessions, ctype \in ContentTypes : VoiceReceive(r, sid, ctype)
    \/ \E r \in Requests, o \in ReadOutcomes : VoiceRead(r, o)
    \/ \E r \in Requests, o \in SttOutcomes : VoiceTranscribe(r, o)
    \/ \E r \in Requests : VoiceLogUser(r)
    \/ \E r \in Requests, o \in WeatherOutcomes : VoiceWeather(r, o)
    \/ \E r \in Requests, o \in NewsOutcomes : VoiceNews(r, o)
    \/ \E r \in Requests : VoiceShanty(r)
    \/ \E r \in Requests, o \in LlmOutcomes : VoiceLlm(r, o)
    \/ \E r \in Requests : VoiceLogAssistant(r)
    \/ \E r \in Requests, hasKey \in BOOLEAN : VoiceSpeech(r, hasKey)
    \/ \E r \in Requests, o \in SpeechOutcomes : VoiceSpeechDone(r, o)
    \/ \E r \in Requests : VoiceRespond(r)

SpecVoice == InitVoice /\ [][NextVoice]_vars

\* what the code guarantees about progress: the event loop resumes every ready
\* handler, the upload read completes, the skills' requests carry timeout=5 and
\* the TTS request carries a total timeout of 30 seconds.  transcriber.transcribe
\* and model.generate_content are called without any timeout, so nothing makes
\* VoiceTranscribe or VoiceLlm happen
FairnessVoice ==
    \A r \in Requests :
        /\ WF_vars(\E o \in ReadOutcomes : VoiceRead(r, o))
        /\ WF_vars(VoiceLogUser(r))
        /\ WF_vars(\E o \in WeatherOutcomes : VoiceWeather(r, o))
        /\ WF_vars(\E o \in NewsOutcomes : VoiceNews(r, o))
        /\ WF_vars(VoiceShanty(r))
        /\ WF_vars(VoiceLogAssistant(r))
        /\ WF_vars(\E hasKey \in BOOLEAN : VoiceSpeech(r, hasKey))
        /\ WF_vars(\E o \in SpeechOutcomes : VoiceSpeechDone(r, o))
        /\ WF_vars(VoiceRespond(r))

SpecVoiceFair == InitVoice /\ [][NextVoice]_vars /\ FairnessVoice

InitVoiceLong ==
    /\ FreshStore
    /\ AdaptersIdle
    /\ NoRequest
    /\ \E k \in 0..PriorExchanges : ship = PriorShip(k)

NextVoiceLong ==
    \/ \E r \in OneAtATime, sid \in VoiceSessions, ctype \in ContentTypes : VoiceReceive(r, sid, ctype)
    \/ \E r \in OneAtATime, o \in ReadOutcomes : VoiceRead(r, o)
    \/ \E r \in OneAtATime, o \in SttOutcomes : VoiceTranscribe(r, o)
    \/ \E r \in OneAtATime : VoiceLogUser(r)
    \/ \E r \in OneAtATime, o \in WeatherOutcomes : VoiceWeather(r, o)
    \/ \E r \in OneAtATime, o \in NewsOutcomes : VoiceNews(r, o)
    \/ \E r \in OneAtATime : VoiceShanty(r)
    \/ \E r \in OneAtATime, o \in LlmOutcomes : VoiceLlm(r, o)
    \/ \E r \in OneAtATime : VoiceLogAssistant(r)
    \/ \E r \in OneAtATime, hasKey \in BOOLEAN : VoiceSpeech(r, hasKey)
    \/ \E r \in OneAtATime, o \in SpeechOutcomes : VoiceSpeechDone(r, o)
    \/ \E r \in OneAtATime : VoiceRespond(r)

SpecVoiceLong == InitVoiceLong /\ [][NextVoiceLong]_vars

(***************************************************************************)
(* Claims on MemoryStore (checked under SpecMem)                           *)
(***************************************************************************)
\* what get_messages(s) returns in the current state
Stored(s) == GetMessagesRet(cache, files, s)

\* what a fresh MemoryStore on the same directory returns from get_messages(s)
StoredAfterReload(s) == GetMessagesRet(EmptyDict, files, s)

\* C5 as stated: after N > 100 appends from an empty session at most 80 messages
\* are stored and they are the most recently appended ones, in order.
C5_AtMost80 ==
    \A s \in MemSessions :
        napp[s] > MaxMessages =>
            /\ Len(Stored(s)) <= KeepMessages
            /\ Stored(s) = Range(napp[s] - Len(Stored(s)) + 1, napp[s])

\* C5 amended: after N > 100 appends from an empty session at most 100 messages
\* are stored (the count is cut back to 80 only by the append that would make it
\* 101) and they are the most recently appended ones, in their original order.
C5_AtMost100MostRecent ==
    \A s \in MemSessions :
        napp[s] > MaxMessages =>
            /\ Len(Stored(s)) <= MaxMessages
            /\ Stored(s) = Range(napp[s] - Len(Stored(s)) + 1, napp[s])

\* C5 witness: the 102nd append has run on a session that was cut to 80 by the
\* 101st, so 81 messages are stored.
C5_Witness ==
    /\ memOp.op = "append_message"
    /\ napp["s1"] = MaxMessages + 2
    /\ Len(memOp.before) = KeepMessages
    /\ Len(Stored("s1")) = KeepMessages + 1

\* C6 as stated: a session never holds more than 100 messages; an append that
\* would exceed 100 leaves the last 80 (the new one last), any other append
\* leaves the previous messages with the new one added at the end.
C6_AppendKeepsPrevious ==
    /\ \A s \in MemSessions : Len(Stored(s)) <= MaxMessages
    /\ memOp.op = "append_message" =>
           LET all == Append(memOp.before, napp[memOp.sid])
           IN  Stored(memOp.sid) =
                   IF Len(all) > MaxMessages THEN LastN(all, KeepMessages) ELSE all

\* C7: a fresh store on the same directory returns from get_messages what the
\* original store returns, and a session without a backing file reads as empty.
C7_DurableAcrossReload ==
    \A s \in MemSessions :
        /\ StoredAfterReload(s) = Stored(s)
        /\ s \notin DOMAIN files => Stored(s) = <<>>

\* C7 witness: get_messages has just loaded two or more messages from the file
\* into an empty cache.
C7_Witness ==
    /\ memOp.op = "get_messages"
    /\ memOp.cold
    /\ Len(memOp.before) >= 2
    /\ cache["s1"].messages = memOp.before

C9_SummaryRoundTrip ==
    memOp.op = "set_summary" =>
        /\ GetSummaryRet(cache, files, memOp.sid) = memOp.arg
        /\ GetSummaryRet(EmptyDict, files, memOp.sid) = memOp.arg
        /\ Stored(memOp.sid) = memOp.before
        /\ StoredAfterReload(memOp.sid) = memOp.before

\* C9 witness: set_summary("Y") has run on a session with persisted messages
\* that was outside the cache.
C9_Witness ==
    /\ memOp.op = "set_summary"
    /\ memOp.arg = "Y"
    /\ memOp.cold
    /\ Len(memOp.before) >= 2

\* C29 as stated: get_recent_messages(session_id, limit) with limit >= 0 returns
\* exactly the last min(limit, n) of the n stored messages in stored order: never
\* more than limit messages, and the empty sequence for limit = 0.
C29_LastMinLimitN ==
    memOp.op = "get_recent_messages" =>
        LET n == Len(memOp.before)
            k == IF memOp.limit < n THEN memOp.limit ELSE n
        IN  /\ Len(memOp.ret) = k
            /\ \A i \in 1..k : memOp.ret[i] = memOp.before[n - k + i]

\* C33 as stated: append_message never discards stored session state: after
\* append_message(s, m), get_messages(s) is the previously persisted sequence
\* with m at the end (subject to the 100/80 truncation) and get_summary(s) is
\* unchanged, whether or not s was in the cache before the call.
C33_AppendKeepsStoredState ==
    memOp.op = "append_message" =>
        /\ Stored(memOp.sid) = Truncate(Append(memOp.before, napp[memOp.sid]))
        /\ StoredAfterReload(memOp.sid) = Stored(memOp.sid)
        /\ GetSummaryRet(cache, files, memOp.sid) = memOp.summary

(***************************************************************************)
(* Claims on the session directory (checked under SpecMemDir)              *)
(***************************************************************************)
\* the file of session s cannot be read or does not hold valid JSON
Damaged(s) == s \in DOMAIN files /\ files[s].kind \in {"unreadable", "garbage"}

\* get_messages(s) has just returned the empty sequence without raising and the
\* session behaves as an empty one: get_summary gives "" and an append_message
\* of a message m leaves exactly <<m>>
BehavesEmpty(s) ==
    /\ memOp.before = <<>>
    /\ ~memOp.raised
    /\ GetSummaryRet(cache, files, s) = ""
    /\ LET e  == AppendEntry(cache, s, 9)
           c2 == DictSet(cache, s, e)
           f2 == WriteText(files, s, JsonDumps(e.messages, e.summary))
       IN  /\ GetMessagesRet(c2, f2, s) = <<9>>
           /\ GetMessagesRet(EmptyDict, f2, s) = <<9>>

\* C31 as stated: get_messages on a session whose backing file is unreadable or
\* not valid JSON returns the empty sequence without raising, and the session
\* then behaves as an empty session.
C31_DamagedFileReadsEmpty ==
    (memOp.op = "get_messages" /\ Damaged(memOp.sid)) => BehavesEmpty(memOp.sid)

\* C31 amended: the same for a session that is not in the in-memory cache when
\* get_messages is called (a cached session is answered from the cache and its
\* file is not read).
C31_DamagedFileReadsEmptyWhenUncached ==
    (memOp.op = "get_messages" /\ Damaged(memOp.sid) /\ memOp.cold) =>
        BehavesEmpty(memOp.sid)

\* C31 witness: get_messages has run on an uncached session whose file, written
\* by two appends, is no longer valid JSON.
C31_Witness ==
    /\ memOp.op = "get_messages"
    /\ memOp.cold
    /\ memOp.sid \in DOMAIN files
    /\ files[memOp.sid].kind = "garbage"
    /\ napp[memOp.sid] = 2
    /\ memOp.before = <<>>
    /\ memOp.sid \notin DOMAIN cache

\* C32 as stated: a session exists only once its first message is appended: a
\* session id that has only been read, or that has been cleared, is not listed
\* by sessions() and has no entry in stats().
C32_ExistsOnlyAfterAppend ==
    \A s \in DirSessions :
        napp[s] = 0 =>
            /\ s \notin SessionsRet(cache, files)
            /\ s \notin DOMAIN StatsRet(cache, files)
            /\ memOp.op \in {"sessions", "stats"} => s \notin memOp.listed
            /\ memOp.op = "stats" => s \notin DOMAIN memOp.counts

SessionOps ==
    {"get_messages", "get_recent_messages", "error_summary", "append_message",
     "clear_session", "get_summary", "set_summary"}

\* session b has the same cache entry and the same file before and after the
\* step (what get_messages and get_summary return for b is determined by these)
Untouched(b) ==
    /\ (b \in DOMAIN cache') = (b \in DOMAIN cache)
    /\ b \in DOMAIN cache => cache'[b] = cache[b]
    /\ (b \in DOMAIN files') = (b \in DOMAIN files)
    /\ b \in DOMAIN files => files'[b] = files[b]

\* C35: sessions are isolated: every MemoryStore operation on a session A leaves
\* the messages, the summary and the backing file of every other session B
\* unchanged.
C35_SessionsIsolated ==
    [][memOp'.op \in SessionOps =>
           \A b \in DirSessions \ {memOp'.sid} : Untouched(b)]_vars

\* C35 witness: clear_session has just run on session s1, which held a
\* message, while session s2 holds a persisted message and a summary.
C35_Witness ==
    /\ memOp.op = "clear_session"
    /\ memOp.sid = "s1"
    /\ Len(memOp.before) = 1
    /\ "s2" \in DOMAIN cache
    /\ "s2" \in DOMAIN files
    /\ Len(Stored("s2")) = 1
    /\ GetSummaryRet(cache, files, "s2") = "X"

(***************************************************************************)
(* Claims on text_to_speech (checked under SpecTts)                        *)
(***************************************************************************)
\* C3 as stated: text_to_speech never raises and never returns failure; whatever
\* the provider and the secondary synthesis do it returns success = true, no error
\* and a URL, an inline audio payload or the text-only sentinel.
C3_TtsNeverFails ==
    /\ tts.pc # "raised"
    /\ tts.pc = "done" =>
           /\ tts.ret.success
           /\ tts.ret.error = "none"
           /\ tts.ret.payload.kind \in {"url", "inline", "text_only"}

\* the last answer the provider gave in this call
LastGot == tts.got[Len(tts.got)]

\* no answer of the provider so far named an audio reference
NoAudioRefSoFar == \A i \in 1..Len(tts.got) : ~(tts.got[i] \in {"200_url", "200_b64"})

\* C16 as stated: with a credential the requests go out in the fixed order
\* (header variants outer, payload variants inner), at most one per combination;
\* the first HTTP 200 answer with a URL or inline audio field is returned and no
\* request follows it; an HTTP 200 answer without an audio reference does not end
\* the iteration, which ends only on an audio reference or after the 4th answer.
C16_VariantsInOrderUntilAudio ==
    (tts.pc # "idle" /\ tts.configured) =>
        /\ Len(tts.sent) <= 4
        /\ \A i \in 1..Len(tts.sent) :
               tts.sent[i] = << <<"bearer", "voiceId">>, <<"bearer", "voice">>,
                                <<"api-key", "voiceId">>, <<"api-key", "voice">> >>[i]
        /\ Len(tts.sent) = Len(tts.got) + (IF tts.pc = "await" THEN 1 ELSE 0)
        /\ \A i \in 1..(Len(tts.got) - 1) : ~(tts.got[i] \in {"200_url", "200_b64"})
        /\ tts.pc = "await" => NoAudioRefSoFar
        /\ (tts.pc = "done" /\ ~NoAudioRefSoFar) =>
               /\ tts.ret.success
               /\ tts.ret.payload.kind = (IF LastGot = "200_url" THEN "url" ELSE "inline")
               /\ tts.synth = <<>>
        /\ (tts.pc # "await" /\ NoAudioRefSoFar) => Len(tts.got) = 4

\* C17 as stated: when every primary variant has failed, text_to_speech returns
\* the secondary synthesis as inline audio, or the text-only sentinel carrying the
\* text when the secondary synthesis is unavailable or raises; the secondary
\* synthesis runs only after all four variants failed or without a credential.
C17_SecondaryAfterAllVariantsFail ==
    /\ tts.synth # <<>> =>
           /\ ~tts.configured \/ (Len(tts.got) = 4 /\ NoAudioRefSoFar)
           /\ tts.synth = <<tts.text>>
           /\ tts.pc = "done"
           /\ tts.ret.payload.kind = (IF tts.gtts = "ok" THEN "inline" ELSE "text_only")
           /\ tts.ret.payload.text = tts.text
    /\ (tts.configured /\ Len(tts.got) = 4 /\ NoAudioRefSoFar) =>
           /\ tts.pc = "done"
           /\ tts.synth # <<>>

\* C18: without a credential text_to_speech sends no request, hands the text to
\* the secondary synthesis at once and returns success with no error category,
\* the payload being inline audio or the text-only sentinel.
C18_UnconfiguredFallsBackAtOnce ==
    (tts.pc = "done" /\ ~tts.configured) =>
        /\ tts.sent = <<>>
        /\ tts.got = <<>>
        /\ tts.synth = <<tts.text>>
        /\ tts.ret.success
        /\ tts.ret.error = "none"
        /\ tts.ret.payload.kind = (IF tts.gtts = "ok" THEN "inline" ELSE "text_only")
        /\ tts.ret.payload.text = tts.text

\* C18 witness: a call without a credential has returned the text-only sentinel
\* because the secondary synthesis raised.
C18_Witness ==
    /\ tts.pc = "done"
    /\ ~tts.configured
    /\ tts.gtts = "raises"
    /\ tts.ret.success
    /\ tts.ret.payload.kind = "text_only"

\* the texts the call in progress has handed to a synthesizer: the text of the
\* requests sent to the primary provider and the texts given to gTTS
HandedToSynthesizer ==
    (IF tts.sent # <<>> THEN {tts.text} ELSE {})
        \cup (IF tts.gtts # "unavailable"
              THEN {tts.synth[i] : i \in 1..Len(tts.synth)} ELSE {})

\* C30 as stated: on every path (primary provider, fallback after provider
\* failure, fallback without a credential) the text handed to a synthesizer is
\* at most 3000 characters long: an input longer than 3000 characters is cut to
\* its first 2950 characters plus "...", a shorter one is passed unchanged.
C30_SynthesizerTextClipped ==
    \A t \in HandedToSynthesizer :
        /\ t.len <= MaxTtsText
        /\ tts.input.len > MaxTtsText =>
               t = [len |-> ClipTtsText + EllipsisLen, cut |-> TRUE]
        /\ tts.input.len <= MaxTtsText => t = tts.input

(***************************************************************************)
(* Claims on speech_to_text (checked under SpecStt)                        *)
(***************************************************************************)
\* C19: speech_to_text calls the provider only when it is configured and the
\* audio file exists and is non-empty; unconfigured it fails with CONFIG_ERROR
\* whatever the file, configured with a missing or empty file it fails with
\* FILE_ERROR.
C19_NoProviderCallUnlessReady ==
    stt_call.pc = "done" =>
        /\ stt_call.called <=> (stt_call.configured /\ stt_call.file = "audio")
        /\ ~stt_call.configured =>
               (~stt_call.ret.success /\ stt_call.ret.error = "config_error")
        /\ (stt_call.configured /\ stt_call.file \in {"missing", "empty"}) =>
               (~stt_call.ret.success /\ stt_call.ret.error = "file_error")

\* C19 witness: an unconfigured call on a missing file has returned CONFIG_ERROR
\* without calling the provider.
C19_Witness ==
    /\ stt_call.pc = "done"
    /\ ~stt_call.configured
    /\ stt_call.file = "missing"
    /\ ~stt_call.called
    /\ stt_call.ret.error = "config_error"

\* the runs of whitespace a transcript of TranscriptTexts starts or ends with
Whitespace == {<<>>, <<" ">>, <<" ", " ">>}

\* the text is made of whitespace only (the empty text included)
Blank(t) == \A i \in 1..Len(t) : t[i] = " "

\* C20: speech_to_text reports success only with no error category and the
\* provider's transcript without its leading and trailing whitespace, which is
\* not empty; a transcription the provider reports as failed, and an absent, empty
\* or whitespace-only transcript, fail with STT_ERROR and empty text.
C20_SuccessOnlyWithTrimmedText ==
    stt_call.pc = "done" =>
        /\ stt_call.ret.success =>
               /\ stt_call.ret.error = "none"
               /\ stt_call.ret.text # <<>>
               /\ Head(stt_call.ret.text) # " "
               /\ stt_call.ret.text[Len(stt_call.ret.text)] # " "
               /\ stt_call.called
               /\ stt_call.provider.kind = "completed"
               /\ \E a, b \in Whitespace :
                      stt_call.provider.text = a \o stt_call.ret.text \o b
        /\ (/\ stt_call.called
            /\ \/ stt_call.provider.kind = "status_error"
               \/ /\ stt_call.provider.kind = "completed"
                  /\ stt_call.provider.none \/ Blank(stt_call.provider.text))
               => /\ ~stt_call.ret.success
                  /\ stt_call.ret.error = "stt_error"
                  /\ stt_call.ret.text = <<>>

\* C20 witness: a transcript with whitespace on both sides has been returned
\* trimmed.
C20_Witness ==
    /\ stt_call.pc = "done"
    /\ stt_call.ret.success
    /\ stt_call.provider.text = <<" ", "a", " ">>
    /\ stt_call.ret.text = <<"a">>

C22_EmptyBodyIsLlmError ==
    (/\ llm_call.pc = "done"
     /\ llm_call.called
     /\ \/ llm_call.provider.kind \in {"no_response", "no_text"}
        \/ (llm_call.provider.kind = "completed" /\ llm_call.provider.text = <<>>)) =>
        /\ ~llm_call.ret.success
        /\ llm_call.ret.error = "llm_error"
        /\ llm_call.ret.text = <<>>

\* C22 witness: a configured call has returned after the provider delivered a
\* response whose text is empty.
C22_Witness ==
    /\ llm_call.pc = "done"
    /\ llm_call.configured
    /\ llm_call.provider = [kind |-> "completed", text |-> <<>>]
    /\ llm_call.ret.error = "llm_error"

\* C23: generate_response fails with CONFIG_ERROR exactly when it is not
\* configured, and then does not call the provider; any other failure is
\* NETWORK_ERROR for a network-level exception and LLM_ERROR otherwise; a failed
\* call returns empty text and one error category, a successful one none.
C23_FailureCategories ==
    llm_call.pc = "done" =>
        /\ (llm_call.ret.error = "config_error") <=> ~llm_call.configured
        /\ llm_call.called <=> llm_call.configured
        /\ ~llm_call.configured => ~llm_call.ret.success
        /\ (llm_call.configured /\ ~llm_call.ret.success) =>
               llm_call.ret.error =
                   (IF llm_call.provider.kind = "request_exception"
                    THEN "network_error" ELSE "llm_error")
        /\ ~llm_call.ret.success =>
               /\ llm_call.ret.text = <<>>
               /\ llm_call.ret.error \in {"config_error", "network_error", "llm_error"}
        /\ llm_call.ret.success => llm_call.ret.error = "none"

\* C23 witness: a configured call has failed with NETWORK_ERROR after a
\* network-level exception.
C23_Witness ==
    /\ llm_call.pc = "done"
    /\ llm_call.configured
    /\ llm_call.provider.kind = "request_exception"
    /\ ~llm_call.ret.success
    /\ llm_call.ret.error = "network_error"

\* C38 as stated: whenever generate_response reports success the text it returns
\* is non-empty; a provider response of whitespace only is not reported as a
\* success with empty text.
C38_SuccessTextNonEmpty ==
    (llm_call.pc = "done" /\ llm_call.ret.success) => llm_call.ret.text # <<>>

(***************************************************************************)
(* Claims on the /chat/voice pipeline (checked under SpecVoice)            *)
(***************************************************************************)
\* the stages request q went through
Stages(q) == {q.events[i].ev : i \in 1..Len(q.events)}

\* the messages request q has put into its session's memory
LoggedBy(q) ==
    LET msgs == GetCrewMessages(ship, q.sid)
    IN  {msgs[i] : i \in {j \in 1..Len(msgs) : msgs[j].turn = q.turn}}

\* the STT adapter was called for q and reported failure
SttFailed(q) == "stt" \in Stages(q) /\ ~q.stt.success

\* the LLM adapter was called for q and reported failure
LlmFailed(q) == q.llm_called /\ ~q.llm_success

\* the TTS adapter was called for q and reported failure
TtsFailed(q) == "tts" \in Stages(q) /\ ~q.speech.success

\* C1: when the STT adapter reports failure the request aborts: no LLM call, no
\* TTS call, no assistant message in the session's memory, and the response carries
\* the error category the STT adapter returned.
C1_SttFailureAborts ==
    (answered.pc = "done" /\ SttFailed(answered)) =>
        /\ Stages(answered) = {"stt"}
        /\ LoggedBy(answered) = {}
        /\ answered.resp.status # 200
        /\ "transcription_error" \in DOMAIN answered.resp
        /\ answered.resp.transcription_error = answered.stt.error
        /\ answered.stt.error \in {"config_error", "stt_error"}

\* C1 witness: a request is answered after the STT adapter failed for want of a
\* credential, in a session that already holds messages.
C1_Witness ==
    /\ answered.pc = "done"
    /\ SttFailed(answered)
    /\ answered.stt.error = "config_error"
    /\ answered.resp.transcription_error = "config_error"
    /\ Len(GetCrewMessages(ship, answered.sid)) >= 2

\* C2: when STT succeeds and the LLM adapter fails (CONFIG_ERROR included) the
\* pipeline goes on: status 200, the response text is the fixed fallback text, the
\* TTS adapter is called with that text and the stored assistant message carries
\* the failure category as error_type.
C2_LlmFailureFallsBack ==
    (answered.pc = "done" /\ LlmFailed(answered)) =>
        /\ answered.resp.status = 200
        /\ answered.resp.response = LlmFallbackText
        /\ answered.llm_error \in {"config_error", "llm_error"}
        /\ \E i \in 1..Len(answered.events) :
               answered.events[i] = Event("tts", "", LlmFallbackText, "")
        /\ Message("assistant", LlmFallbackText, answered.llm_error, answered.turn)
               \in LoggedBy(answered)
        /\ \A m \in LoggedBy(answered) :
               m.role = "assistant" => m.error_type = answered.llm_error

\* C2 witness: a request is answered with status 200 after the LLM adapter failed
\* for want of a credential.
C2_Witness ==
    /\ answered.pc = "done"
    /\ LlmFailed(answered)
    /\ answered.llm_error = "config_error"
    /\ answered.resp.status = 200
    /\ answered.resp.errors.llm_error = "config_error"

\* C4 as stated: after a successful STT stage a failure of the TTS provider still
\* yields status 200, a non-empty response text, a non-null audio field and a
\* status record that marks the TTS stage as failed.
C4_TtsFailureStillHasAudio ==
    (answered.pc = "done" /\ answered.stt.success /\ TtsFailed(answered)) =>
        /\ answered.resp.status = 200
        /\ answered.resp.response # ""
        /\ answered.resp.audio_data # "None"
        /\ ~answered.resp.has_audio
        /\ answered.resp.errors.tts_error # "none"

\* C10 as stated: the temporary file of a request is deleted on every exit path;
\* once a request has returned, no temporary file it created remains.
C10_TempFileDeleted ==
    \A f \in tmpdir : \E r \in Requests : req[r].pc # "idle" /\ req[r].turn = f

\* C11 as stated: a request whose upload is empty or whose content type is not
\* audio-like is answered with status 400 and category FILE_ERROR; no adapter is
\* called for it and it leaves the session's memory as it was.
C11_BadUploadRejected ==
    (answered.pc = "done" /\ answered.exit \in {"bad_content_type", "empty_upload"}) =>
        /\ Stages(answered) = {}
        /\ LoggedBy(answered) = {}
        /\ answered.resp.status = 400
        /\ "error_type" \in DOMAIN answered.resp
        /\ answered.resp.error_type = "file_error"

\* C12 as stated: when the STT adapter fails the response has status 500 and
\* carries the fallback message of the failure, a fallback audio payload and
\* retry_suggested = true.
C12_SttFailureIs500WithAudio ==
    (answered.pc = "done" /\ SttFailed(answered)) =>
        /\ answered.resp.error = answered.stt.text
        /\ answered.resp.status = 500
        /\ "audioFile" \in DOMAIN answered.resp
        /\ "retry_suggested" \in DOMAIN answered.resp
        /\ answered.resp.retry_suggested

\* C13 as stated: an exception raised in the pipeline after validation is caught
\* by the handler and answered with status 500 and category NETWORK_ERROR.
C13_ExceptionIsNetworkError ==
    (answered.pc = "done" /\ answered.exit = "exception") =>
        /\ answered.resp.status = 500
        /\ "error_type" \in DOMAIN answered.resp
        /\ answered.resp.error_type = "network_error"

\* the contents of the messages of a session that carry an error_type
ErrorTaggedContents(sid) ==
    LET msgs == GetCrewMessages(ship, sid)
    IN  {msgs[i].content : i \in {j \in 1..Len(msgs) : msgs[j].error_type # "none"}}

\* the requests in flight and the one just answered
Live == {req[r] : r \in Requests} \cup {answered}

\* C14: no prompt handed to the LLM adapter holds the content of a message that
\* carries an error_type.
C14_NoErrorTaggedInPrompt ==
    \A q \in Live :
        q.llm_called =>
            \A i \in 1..Len(q.prompt) : q.prompt[i].content \notin ErrorTaggedContents(q.sid)

\* C14 witness: a prompt has just been built for a session whose history window
\* holds an error-tagged assistant message next to untagged messages.
C14_Witness ==
    \E r \in Requests :
        /\ req[r].pc = "generated"
        /\ req[r].llm_called
        /\ Len(req[r].prompt) >= 6
        /\ LET history == GetRecentVoyageLog(ship, req[r].sid, PromptHistoryLimit)
           IN  \E i \in 1..Len(history) : history[i].error_type # "none"

\* C15 as stated: the session summary is written when, after the assistant
\* message of a request has been appended, the session holds a multiple of 10
\* messages, and at no other point.
C15_SummaryEveryTenth ==
    /\ \A r \in Requests :
           (/\ req[r].pc = "synthesizing"
            /\ Len(GetCrewMessages(ship, req[r].sid)) % 10 = 0)
               => req[r].sid \in DOMAIN ship_log
    /\ \A sid \in DOMAIN ship_log : Len(GetCrewMessages(ship, sid)) >= 10

\* the exits of the handler that answer with an error
ErrorExits == {"bad_content_type", "empty_upload", "exception", "stt_failure"}

\* C24: a request is answered with an error only before its transcript has been
\* obtained (no stage past the STT call has run for it and nothing of it is in
\* memory); once the transcript has been obtained the request is answered with
\* the success response (status 200), whatever the LLM and TTS stages did.
C24_ErrorOnlyBeforeTranscript ==
    answered.pc = "done" =>
        /\ answered.exit \in ErrorExits \cup {"success"}
        /\ answered.stt.success =>
               /\ answered.exit = "success"
               /\ answered.resp.status = 200
               /\ answered.resp.session_id = answered.sid
               /\ answered.resp.response = answered.response_text
        /\ answered.exit \in ErrorExits =>
               /\ answered.resp.status \in {400, 500}
               /\ ~answered.stt.success
               /\ Stages(answered) \subseteq {"stt"}
               /\ LoggedBy(answered) = {}

\* C24 witness: a request whose transcript was obtained is answered with status
\* 200 although both the LLM adapter and the TTS adapter failed for it.
C24_Witness ==
    /\ answered.pc = "done"
    /\ answered.stt.success
    /\ LlmFailed(answered)
    /\ TtsFailed(answered)
    /\ answered.exit = "success"
    /\ answered.resp.status = 200

\* the place of a recorded stage in the order STT call, user append, LLM call,
\* assistant append, TTS call
StageNo(e) ==
    CASE e.ev = "stt" -> 1
      [] e.ev = "llm" -> 3
      [] e.ev = "tts" -> 5
      [] e.role = "user" -> 2
      [] OTHER -> 4

\* C25 as stated: within one request the stages occur in the order STT call,
\* append of the user message, LLM call, append of the assistant message, TTS
\* call, response, each at most once; the LLM is never called before the user
\* message is stored and the TTS adapter never before the assistant message is.
C25_StagesInOrderOnce ==
    \A q \in Live :
        /\ \A i, j \in 1..Len(q.events) :
               i < j => StageNo(q.events[i]) < StageNo(q.events[j])
        /\ \A j \in 1..Len(q.events) :
               /\ q.events[j].ev = "llm" => \E i \in 1..(j - 1) : StageNo(q.events[i]) = 2
               /\ q.events[j].ev = "tts" => \E i \in 1..(j - 1) : StageNo(q.events[i]) = 4
        /\ q.exit = "success" => StageNo(q.events[Len(q.events)]) = 5

\* C28: in every success response message_count is the number of messages the
\* session holds, the assistant message of the request included, and
\* recent_messages is the last min(6, message_count) of them in stored order.
C28_CountAndRecentWindow ==
    (answered.pc = "done" /\ answered.exit = "success") =>
        LET msgs == GetCrewMessages(ship, answered.sid)
            n    == Len(msgs)
            k    == IF n < RecentLimit THEN n ELSE RecentLimit
        IN  /\ answered.resp.message_count = n
            /\ \E i \in 1..n :
                   msgs[i] = Message("assistant", answered.response_text,
                                     answered.llm_error, answered.turn)
            /\ Len(answered.resp.recent_messages) = k
            /\ \A i \in 1..k : answered.resp.recent_messages[i] = msgs[n - k + i]

\* C28 witness: a success response for a session that holds more than six
\* messages, so that the window leaves the oldest ones out.
C28_Witness ==
    /\ answered.pc = "done"
    /\ answered.exit = "success"
    /\ answered.resp.message_count > RecentLimit
    /\ Len(answered.resp.recent_messages) = RecentLimit
    /\ answered.resp.recent_messages[RecentLimit].turn = answered.turn
    /\ answered.resp.recent_messages[1] # GetCrewMessages(ship, answered.sid)[1]

\* C36 as stated: the prompt built for a new user message holds that message
\* exactly once, as the final user turn, although the message is already in the
\* session history when the prompt is built: the history lines of the prompt are
\* those of the earlier messages only.  (In a state with pc = "generated" the
\* memory is as it was when the prompt was built.)
C36_NewMessageOnceInPrompt ==
    \A r \in Requests :
        (req[r].pc = "generated" /\ req[r].llm_called) =>
            LET q == req[r]
                window == GetRecentVoyageLog(ship, q.sid, PromptHistoryLimit)
                Earlier(m) == InPrompt(m) /\ m.turn # q.turn
                n == Len(q.prompt)
            IN  /\ q.prompt[n - 1] = PromptLine("user", q.stt.text)
                /\ SubSeq(q.prompt, 3, n - 2) = HistoryLines(SelectSeq(window, Earlier))

\* the messages request q has put into its session's memory, in stored order
AppendedBy(q) ==
    LET Own(m) == m.turn = q.turn
    IN  SelectSeq(GetCrewMessages(ship, q.sid), Own)

\* C37 as stated: every request that passes the STT stage and completes appends
\* exactly two messages to its session, one user message followed by one
\* assistant message, also when the weather or news skill produces the reply.
C37_TwoMessagesPerRequest ==
    (answered.pc = "done" /\ answered.exit = "success") =>
        /\ Len(AppendedBy(answered)) = 2
        /\ AppendedBy(answered)[1] = Message("user", answered.stt.text, "none", answered.turn)
        /\ AppendedBy(answered)[2] =
               Message("assistant", answered.response_text, answered.llm_error, answered.turn)

\* C39 as stated: in every session history each assistant message is immediately
\* preceded by the user message of the same request (roles alternate user,
\* assistant), also when two requests for one session are in flight together.
C39_AssistantFollowsItsUser ==
    \A sid \in DOMAIN ship :
        \A i \in 1..Len(ship[sid]) :
            ship[sid][i].role = "assistant" =>
                /\ i > 1
                /\ ship[sid][i - 1].role = "user"
                /\ ship[sid][i - 1].turn = ship[sid][i].turn

(***************************************************************************)
(* Termination of a request (checked under SpecVoiceFair)                  *)
(***************************************************************************)
\* C26 as stated: every accepted request eventually reaches a terminal state and
\* is answered; no request stays pending forever.
C26_EveryRequestAnswered ==
    \A r \in Requests : (req[r].pc # "idle") ~> (req[r].pc = "idle")

(***************************************************************************)
(* Concurrent MemoryStore calls (checked under SpecMemConc)                *)
(***************************************************************************)
\* what get_messages would return for the session the threads share
Held == GetMessagesRet(cache, files, "s1")

\* the messages of the completed append_message calls, in order of return
AppendedSoFar ==
    LET IsAppend(c) == c.op = "append_message"
        done == SelectSeq(hist, IsAppend)
    IN  [i \in 1..Len(done) |-> done[i].msg]

\* C27 as stated: the calls are serialized by the lock.  Every completed call
\* saw the session as the call that returned before it left it; an
\* append_message on a session of fewer than 100 messages leaves those messages
\* with its own added at the end, a get_messages returns what the session held
\* and changes nothing; once all calls have returned the session holds every
\* appended message once, in order of return.
C27_SerializedCalls ==
    /\ \A i \in 1..Len(hist) :
           /\ (hist[i].op = "append_message" /\ Len(hist[i].before) < MaxMessages) =>
                  hist[i].after = Append(hist[i].before, hist[i].msg)
           /\ hist[i].op = "get_messages" =>
                  /\ hist[i].ret = hist[i].before
                  /\ hist[i].after = hist[i].before
           /\ i > 1 => hist[i].before = hist[i - 1].after
    /\ InCall = {} =>
           /\ Held = AppendedSoFar
           /\ hist # <<>> => Held = hist[Len(hist)].after

====
